---- MODULE Spec2Model ----
(***************************************************************************)
(* Model of Scalers.py: the standardizers MinMaxStandardizer,              *)
(* NormalStandardizer, RobustStandardizer and NoneStandardizer, built on   *)
(* AbsStandardizer.                                                        *)
(*                                                                         *)
(* Array elements are numpy float64 values.  They are modelled by exact    *)
(* arithmetic: a finite value is a + b*sqrt(v) with a, b, v rational (the  *)
(* surd part is what numpy's std produces), and the IEEE special values    *)
(* NaN, +Inf and -Inf are kept as separate values with their IEEE rules.   *)
(* Rounding error of float64 is not modelled: an equality of the model is  *)
(* an equality "up to floating-point rounding" of the program.            *)
(***************************************************************************)
EXTENDS Integers, Sequences, FiniteSets, TLC

(***************************************************************************)
(* Bounds of the model.                                                    *)
(***************************************************************************)
MaxRows == 3
MaxVal == 1
MaxArgs == 3

(***************************************************************************)
(* Rationals <<n, d>> in lowest terms with d > 0.                          *)
(***************************************************************************)
Abs(n) == IF n < 0 THEN -n ELSE n

RECURSIVE GCD(_, _)
GCD(m, n) == IF n = 0 THEN m ELSE GCD(n, m % n)

Rat(n, d) ==
    LET s == IF d < 0 THEN -1 ELSE 1
        g == GCD(Abs(n), Abs(d))
    IN  <<(s * n) \div g, (s * d) \div g>>

R0 == <<0, 1>>
RInt(n) == <<n, 1>>
RAdd(p, q) == Rat(p[1] * q[2] + q[1] * p[2], p[2] * q[2])
RNeg(p) == <<-p[1], p[2]>>
RMul(p, q) == Rat(p[1] * q[1], p[2] * q[2])
RDiv(p, q) == Rat(p[1] * q[2], p[2] * q[1])
RSign(p) == IF p[1] > 0 THEN 1 ELSE IF p[1] < 0 THEN -1 ELSE 0
RLess(p, q) == p[1] * q[2] < q[1] * p[2]

IsSquare(n) == \E r \in 0..n : r * r = n
ISqrt(n) == CHOOSE r \in 0..n : r * r = n

(***************************************************************************)
(* float64 values.  k = "fin": the number a + b*sqrt(v), where b = 0 or v  *)
(* is a positive rational that is not a square.  k = "unrep" stands for a  *)
(* finite value outside this form; no reachable state holds one.           *)
(***************************************************************************)
Special(kind) == [k |-> kind, a |-> R0, b |-> R0, v |-> R0]
NaN == Special("nan")
PInf == Special("pinf")
NInf == Special("ninf")
Unrep == Special("unrep")

Fin(a, b, v) ==
    IF b = R0 THEN [k |-> "fin", a |-> a, b |-> R0, v |-> R0]
              ELSE [k |-> "fin", a |-> a, b |-> b, v |-> v]

Num(n) == Fin(RInt(n), R0, R0)
Zero == Num(0)
One == Num(1)

IsFinite(x) == x.k = "fin"
IsInf(x) == x.k \in {"pinf", "ninf"}

\* The sign of a value that is not NaN: -1, 0 or 1.
Sign(x) ==
    IF x.k = "pinf" THEN 1
    ELSE IF x.k = "ninf" THEN -1
    ELSE LET sa == RSign(x.a)
             sb == RSign(x.b)
         IN  IF sb = 0 THEN sa
             ELSE IF sa = 0 \/ sa = sb THEN sb
             ELSE IF RLess(RMul(RMul(x.b, x.b), x.v), RMul(x.a, x.a)) THEN sa
             ELSE sb

InfOfSign(s) == IF s > 0 THEN PInf ELSE IF s < 0 THEN NInf ELSE NaN

\* Two finite values can be combined when they share the surd.
SameSurd(x, y) == x.b = R0 \/ y.b = R0 \/ x.v = y.v
SurdOf(x, y) == IF x.b = R0 THEN y.v ELSE x.v

Neg(x) ==
    IF x.k = "pinf" THEN NInf
    ELSE IF x.k = "ninf" THEN PInf
    ELSE IF x.k = "fin" THEN Fin(RNeg(x.a), RNeg(x.b), x.v)
    ELSE x

Add(x, y) ==
    IF x.k = "nan" \/ y.k = "nan" THEN NaN
    ELSE IF x.k = "unrep" \/ y.k = "unrep" THEN Unrep
    ELSE IF IsInf(x) THEN (IF IsInf(y) /\ y.k # x.k THEN NaN ELSE x)
    ELSE IF IsInf(y) THEN y
    ELSE IF ~SameSurd(x, y) THEN Unrep
    ELSE Fin(RAdd(x.a, y.a), RAdd(x.b, y.b), SurdOf(x, y))

Sub(x, y) == Add(x, Neg(y))

Mul(x, y) ==
    IF x.k = "nan" \/ y.k = "nan" THEN NaN
    ELSE IF x.k = "unrep" \/ y.k = "unrep" THEN Unrep
    ELSE IF IsInf(x) \/ IsInf(y) THEN InfOfSign(Sign(x) * Sign(y))
    ELSE IF ~SameSurd(x, y) THEN Unrep
    ELSE LET v == SurdOf(x, y)
         IN  Fin(RAdd(RMul(x.a, y.a), RMul(RMul(x.b, y.b), v)),
                 RAdd(RMul(x.a, y.b), RMul(x.b, y.a)), v)

\* 1 / y for a finite y # 0: the conjugate over the norm.
Recip(y) ==
    LET norm == RAdd(RMul(y.a, y.a), RNeg(RMul(RMul(y.b, y.b), y.v)))
    IN  Fin(RDiv(y.a, norm), RNeg(RDiv(y.b, norm)), y.v)

\* Mutant of Div: a zero denominator is replaced by one.
DivGuarded(x, y) ==
    IF x.k = "nan" \/ y.k = "nan" THEN NaN
    ELSE IF x.k = "unrep" \/ y.k = "unrep" THEN Unrep
    ELSE IF IsInf(y) THEN (IF IsInf(x) THEN NaN ELSE Zero)
    ELSE IF y = Zero THEN x
    ELSE IF IsInf(x) THEN InfOfSign(Sign(x) * Sign(y))
    ELSE IF ~SameSurd(x, y) THEN Unrep
    ELSE Mul(x, Recip(y))

\* numpy true division: x / 0 is NaN for x = 0 and +-Inf otherwise, with a
\* RuntimeWarning and no exception.
Div(x, y) ==
    IF x.k = "nan" \/ y.k = "nan" THEN NaN
    ELSE IF x.k = "unrep" \/ y.k = "unrep" THEN Unrep
    ELSE IF IsInf(y) THEN (IF IsInf(x) THEN NaN ELSE Zero)
    ELSE IF y = Zero THEN InfOfSign(Sign(x))
    ELSE IF IsInf(x) THEN InfOfSign(Sign(x) * Sign(y))
    ELSE IF ~SameSurd(x, y) THEN Unrep
    ELSE Mul(x, Recip(y))

Less(x, y) == Sign(Sub(x, y)) < 0
LessEq(x, y) == Sign(Sub(x, y)) <= 0

\* The square root of a value: exact for a rational square, the surd
\* sqrt(v) for another positive rational v.
Sqrt(x) ==
    IF x.k = "nan" \/ x.k = "ninf" THEN NaN
    ELSE IF x.k = "pinf" THEN PInf
    ELSE IF x.k = "unrep" \/ x.b # R0 THEN Unrep
    ELSE IF x.a[1] < 0 THEN NaN
    ELSE IF IsSquare(x.a[1]) /\ IsSquare(x.a[2])
         THEN Fin(Rat(ISqrt(x.a[1]), ISqrt(x.a[2])), R0, R0)
    ELSE Fin(R0, RInt(1), x.a)

(***************************************************************************)
(* numpy arrays.  A 2-D array is a sequence of rows, a row a sequence of   *)
(* float64 values; a 1-D array (a parameter vector) is one such sequence.  *)
(***************************************************************************)
NumRows(A) == Len(A)
NumCols(A) == Len(A[1])
Column(A, j) == [i \in 1..Len(A) |-> A[i][j]]

\* value.min(axis=0), value.max(axis=0) of one column: finite entries.
Min(col) ==
    CHOOSE m \in {col[i] : i \in 1..Len(col)} :
        \A i \in 1..Len(col) : LessEq(m, col[i])
Max(col) ==
    CHOOSE m \in {col[i] : i \in 1..Len(col)} :
        \A i \in 1..Len(col) : LessEq(col[i], m)

RECURSIVE Sum(_)
Sum(col) == IF col = <<>> THEN Zero ELSE Add(Head(col), Sum(Tail(col)))

Mean(col) == Div(Sum(col), Num(Len(col)))

\* The variance numpy's std takes the root of: the mean of the squared
\* deviations from the mean, over n - ddof.
Var(col, ddof) ==
    LET m == Mean(col)
        sq == [i \in 1..Len(col) |-> Mul(Sub(col[i], m), Sub(col[i], m))]
    IN  Div(Sum(sq), Num(Len(col) - ddof))

StdDdof(col, ddof) == Sqrt(Var(col, ddof))

\* value.std(axis=0) of one column: numpy's default ddof = 0.
Std(col) == StdDdof(col, 0)

\* np.sort of one column (finite entries).
RECURSIVE Insert(_, _)
Insert(x, sorted) ==
    IF sorted = <<>> THEN <<x>>
    ELSE IF LessEq(x, Head(sorted)) THEN <<x>> \o sorted
    ELSE <<Head(sorted)>> \o Insert(x, Tail(sorted))

RECURSIVE Sort(_)
Sort(col) == IF col = <<>> THEN <<>> ELSE Insert(Head(col), Sort(Tail(col)))

\* np.quantile(value, q) of one column, q = qn/qd, default method "linear":
\* the virtual index q*(n-1) in the sorted column, interpolated linearly
\* between its two neighbours.
Quantile(col, qn, qd) ==
    LET s == Sort(col)
        n == Len(col)
        lo == (qn * (n - 1)) \div qd
        hi == IF lo + 1 < n THEN lo + 1 ELSE lo
        g == Fin(Rat((qn * (n - 1)) % qd, qd), R0, R0)
    IN  Add(s[lo + 1], Mul(g, Sub(s[hi + 1], s[lo + 1])))

\* np.median of one column: the middle of the sorted column, the mean of
\* the two middle entries for an even length.
Median(col) ==
    LET s == Sort(col)
        n == Len(col)
    IN  IF n % 2 = 1 THEN s[(n \div 2) + 1]
        ELSE Div(Add(s[n \div 2], s[(n \div 2) + 1]), Num(2))

\* The axis=0 reductions: a statistic of every column of a 2-D array.
MinAxis0(A) == [j \in 1..NumCols(A) |-> Min(Column(A, j))]
MaxAxis0(A) == [j \in 1..NumCols(A) |-> Max(Column(A, j))]
MeanAxis0(A) == [j \in 1..NumCols(A) |-> Mean(Column(A, j))]
StdAxis0(A) == [j \in 1..NumCols(A) |-> Std(Column(A, j))]
MedianAxis0(A) == [j \in 1..NumCols(A) |-> Median(Column(A, j))]

\* Elementwise operations of two 1-D arrays and, with numpy broadcasting,
\* of a 2-D array and a 1-D array along the rows.
VecSub(u, w) == [j \in 1..Len(u) |-> Sub(u[j], w[j])]
ArrSub(A, w) == [i \in 1..Len(A) |-> [j \in 1..Len(A[i]) |-> Sub(A[i][j], w[j])]]
ArrAdd(A, w) == [i \in 1..Len(A) |-> [j \in 1..Len(A[i]) |-> Add(A[i][j], w[j])]]
ArrMul(A, w) == [i \in 1..Len(A) |-> [j \in 1..Len(A[i]) |-> Mul(A[i][j], w[j])]]
ArrDiv(A, w) == [i \in 1..Len(A) |-> [j \in 1..Len(A[i]) |-> Div(A[i][j], w[j])]]

(***************************************************************************)
(* Python values that are passed to and returned from the methods.         *)
(***************************************************************************)
PyArr(A) == [type |-> "ndarray", rows |-> A]
PyStr(s) == [type |-> "str", s |-> s]
PyTuple(items) == [type |-> "tuple", items |-> items]
PyNone == [type |-> "NoneType"]

\* The outcome of a call: a returned value or a raised exception.
Return(val) == [exc |-> "none", ret |-> val]
Raise(e) == [exc |-> e, ret |-> PyNone]

(***************************************************************************)
(* MinMaxStandardizer.  A parameter dictionary _params and the dictionary  *)
(* data are functions from the registered keys.                            *)
(***************************************************************************)
\* Mutant of MinMaxFit: the minimum is not subtracted before scaling.
MinMaxFitNoShift(value) ==
    LET data_min == MinAxis0(value)
        data_max == MaxAxis0(value)
    IN  [params |-> [min |-> data_min, max |-> data_max],
         data |-> ArrDiv(value, VecSub(data_max, data_min))]

\* The body of the loop of init_normalization for one (key, value): the
\* parameter record stored under key and the array stored in data[key].
MinMaxFit(value) ==
    LET data_min == MinAxis0(value)
        data_max == MaxAxis0(value)
    IN  [params |-> [min |-> data_min, max |-> data_max],
         data |-> ArrDiv(ArrSub(value, data_min), VecSub(data_max, data_min))]

\* Mutant of MinMaxInitNormalization: the statistics are taken over the
\* rows of all registered arrays together.
MinMaxInitNormalizationPooled(data_to_stadnardize) ==
    LET pooled == IF DOMAIN data_to_stadnardize = {"x", "y"}
                      THEN data_to_stadnardize["x"] \o data_to_stadnardize["y"]
                      ELSE <<>>
        Fit(key) ==
            IF pooled = <<>> THEN MinMaxFit(data_to_stadnardize[key])
            ELSE [params |-> MinMaxFit(pooled).params,
                  data |-> ArrDiv(ArrSub(data_to_stadnardize[key],
                                         MinMaxFit(pooled).params.min),
                                  VecSub(MinMaxFit(pooled).params.max,
                                         MinMaxFit(pooled).params.min))]
    IN  [_params |-> [key \in DOMAIN data_to_stadnardize |-> Fit(key).params],
         data |-> [key \in DOMAIN data_to_stadnardize |-> Fit(key).data]]

MinMaxInitNormalization(data_to_stadnardize) ==
    [_params |-> [key \in DOMAIN data_to_stadnardize |->
                     MinMaxFit(data_to_stadnardize[key]).params],
     data |-> [key \in DOMAIN data_to_stadnardize |->
                  MinMaxFit(data_to_stadnardize[key]).data]]

\* Mutant of MinMaxNormalize: an unknown key returns the data unchanged.
MinMaxNormalizeLenient(P, x, key) ==
    IF key \notin DOMAIN P THEN Return(PyArr(x))
    ELSE Return(PyArr(ArrDiv(ArrSub(x, P[key].min), VecSub(P[key].max, P[key].min))))

MinMaxNormalize(P, x, key) ==
    IF key \notin DOMAIN P THEN Raise("KeyError")
    ELSE Return(PyArr(ArrDiv(ArrSub(x, P[key].min), VecSub(P[key].max, P[key].min))))

MinMaxDenormalize(P, y, key) ==
    IF key \notin DOMAIN P THEN Raise("KeyError")
    ELSE Return(PyArr(ArrAdd(ArrMul(y, VecSub(P[key].max, P[key].min)), P[key].min)))

(***************************************************************************)
(* NormalStandardizer.                                                     *)
(***************************************************************************)
\* Mutant of NormalFit: the sample standard deviation (ddof = 1).
NormalFitSampleStd(value) ==
    LET data_mean == MeanAxis0(value)
        data_std == [j \in 1..NumCols(value) |-> StdDdof(Column(value, j), 1)]
    IN  [params |-> [mean |-> data_mean, std |-> data_std],
         data |-> ArrDiv(ArrSub(value, data_mean), data_std)]

NormalFit(value) ==
    LET data_mean == MeanAxis0(value)
        data_std == StdAxis0(value)
    IN  [params |-> [mean |-> data_mean, std |-> data_std],
         data |-> ArrDiv(ArrSub(value, data_mean), data_std)]

NormalInitNormalization(data_to_stadnardize) ==
    [_params |-> [key \in DOMAIN data_to_stadnardize |->
                     NormalFit(data_to_stadnardize[key]).params],
     data |-> [key \in DOMAIN data_to_stadnardize |->
                  NormalFit(data_to_stadnardize[key]).data]]

NormalNormalize(P, x, key) ==
    IF key \notin DOMAIN P THEN Raise("KeyError")
    ELSE Return(PyArr(ArrDiv(ArrSub(x, P[key].mean), P[key].std)))

NormalDenormalize(P, y, key) ==
    IF key \notin DOMAIN P THEN Raise("KeyError")
    ELSE Return(PyArr(ArrAdd(ArrMul(y, P[key].std), P[key].mean)))

(***************************************************************************)
(* RobustStandardizer.                                                     *)
(***************************************************************************)
\* np.quantile(value, 0.25, axis=0) and np.quantile(value, 0.75, axis=0)
Quartile1Axis0(A) == [j \in 1..NumCols(A) |-> Quantile(Column(A, j), 1, 4)]
Quartile3Axis0(A) == [j \in 1..NumCols(A) |-> Quantile(Column(A, j), 3, 4)]

\* Mutant of RobustFit: centred on the mean instead of the median.
RobustFitMeanCentred(value) ==
    LET data_q1 == Quartile1Axis0(value)
        data_q3 == Quartile3Axis0(value)
        data_median == MeanAxis0(value)
    IN  [params |-> [q1 |-> data_q1, median |-> data_median, q3 |-> data_q3],
         data |-> ArrDiv(ArrSub(value, data_median), VecSub(data_q3, data_q1))]

RobustFit(value) ==
    LET data_q1 == Quartile1Axis0(value)
        data_q3 == Quartile3Axis0(value)
        data_median == MedianAxis0(value)
    IN  [params |-> [q1 |-> data_q1, median |-> data_median, q3 |-> data_q3],
         data |-> ArrDiv(ArrSub(value, data_median), VecSub(data_q3, data_q1))]

RobustInitNormalization(data_to_stadnardize) ==
    [_params |-> [key \in DOMAIN data_to_stadnardize |->
                     RobustFit(data_to_stadnardize[key]).params],
     data |-> [key \in DOMAIN data_to_stadnardize |->
                  RobustFit(data_to_stadnardize[key]).data]]

RobustNormalize(P, x, key) ==
    IF key \notin DOMAIN P THEN Raise("KeyError")
    ELSE Return(PyArr(ArrDiv(ArrSub(x, P[key].median), VecSub(P[key].q3, P[key].q1))))

RobustDenormalize(P, y, key) ==
    IF key \notin DOMAIN P THEN Raise("KeyError")
    ELSE Return(PyArr(ArrAdd(ArrMul(y, VecSub(P[key].q3, P[key].q1)), P[key].median)))

(***************************************************************************)
(* NoneStandardizer: init_normalization leaves data empty; normalize and   *)
(* denormalize return the tuple of their positional arguments.             *)
(***************************************************************************)
EmptyDict == [key \in {} |-> <<>>]

NoneInitNormalization(data_to_stadnardize) ==
    [_params |-> EmptyDict, data |-> EmptyDict]

\* Mutant of NoneNormalize: only the first argument is returned (args[:1]).
NoneNormalizeDataOnly(args) ==
    Return(PyTuple(IF args = <<>> THEN <<>> ELSE <<args[1]>>))

NoneNormalize(args) == Return(PyTuple(args))

NoneDenormalize(args) == Return(PyTuple(args))

(***************************************************************************)
(* Method dispatch on the class of the instance.  The parameterised        *)
(* classes are called as normalize(data, key).                             *)
(***************************************************************************)
Classes == {"MinMax", "Normal", "Robust", "None"}

init_normalization(class, data_to_stadnardize) ==
    CASE class = "MinMax" -> MinMaxInitNormalization(data_to_stadnardize)
      [] class = "Normal" -> NormalInitNormalization(data_to_stadnardize)
      [] class = "Robust" -> RobustInitNormalization(data_to_stadnardize)
      [] class = "None" -> NoneInitNormalization(data_to_stadnardize)

normalize(class, P, args) ==
    CASE class = "MinMax" -> MinMaxNormalize(P, args[1].rows, args[2].s)
      [] class = "Normal" -> NormalNormalize(P, args[1].rows, args[2].s)
      [] class = "Robust" -> RobustNormalize(P, args[1].rows, args[2].s)
      [] class = "None" -> NoneNormalize(args)

denormalize(class, P, args) ==
    CASE class = "MinMax" -> MinMaxDenormalize(P, args[1].rows, args[2].s)
      [] class = "Normal" -> NormalDenormalize(P, args[1].rows, args[2].s)
      [] class = "Robust" -> RobustDenormalize(P, args[1].rows, args[2].s)
      [] class = "None" -> NoneDenormalize(args)

\* AbsStandardizer.__getitem__
getitem(D, key) ==
    IF key \notin DOMAIN D THEN Raise("KeyError") ELSE Return(PyArr(D[key]))

(***************************************************************************)
(* Inputs.  Registered arrays have two feature columns and 1..MaxRows      *)
(* rows.  The first column takes every sequence of values 0..MaxVal; the   *)
(* second column is constant or the ramp 0, 1, 2, ...  Two larger arrays   *)
(* are added: the array of the documented scenario, and one whose first    *)
(* column is not constant but has equal quartiles.                         *)
(***************************************************************************)
Vals == {Num(n) : n \in 0..MaxVal}
SecondColumns(r) == {[i \in 1..r |-> Zero], [i \in 1..r |-> Num(i - 1)]}
ArraysOfRows(r) ==
    {[i \in 1..r |-> <<c1[i], c2[i]>>] : c1 \in [1..r -> Vals], c2 \in SecondColumns(r)}

ScenarioArray == << <<Num(1), Num(2)>>, <<Num(3), Num(4)>>, <<Num(5), Num(6)>> >>
SkewedArray ==
    << <<Num(0), Num(0)>>, <<Num(0), Num(1)>>, <<Num(0), Num(2)>>,
       <<Num(0), Num(3)>>, <<Num(1), Num(4)>> >>
ExtraArrays == {ScenarioArray, SkewedArray}

InputArrays == UNION {ArraysOfRows(r) : r \in 1..MaxRows} \cup ExtraArrays

\* The keyword arguments of a construction: none, one array "x", or "x"
\* and the scenario's array as "y".
InputDicts ==
    {EmptyDict}
    \cup {[key \in {"x"} |-> A] : A \in InputArrays}
    \cup {[key \in {"x", "y"} |-> IF key = "x" THEN A ELSE B] :
              A \in InputArrays, B \in {ScenarioArray}}

\* Arguments of the later calls: one-row arrays of a value inside and a
\* value outside the registered range, and the registered keys and a key
\* that is never registered.
CallVals == {Num(0), Num(MaxVal + 1)}
CallArrays == {<<row>> : row \in CallVals \X CallVals}
CallKeys == {"x", "y", "missing"}
DataKeyArgs == {<<PyArr(x), PyStr(key)>> : x \in CallArrays, key \in CallKeys}

\* Positional arguments of any arity for NoneStandardizer.
RECURSIVE Tuples(_, _)
Tuples(S, n) ==
    IF n = 0 THEN {<<>>}
    ELSE Tuples(S, n - 1) \cup
         {Append(t, e) : t \in {u \in Tuples(S, n - 1) : Len(u) = n - 1}, e \in S}
AnyArgs ==
    Tuples({PyArr(ScenarioArray), PyStr("x")}, MaxArgs)

CallArgs(class) == IF class = "None" THEN DataKeyArgs \cup AnyArgs ELSE DataKeyArgs

(***************************************************************************)
(* The state: one instance, and its caller: the last call made and its     *)
(* outcome, until the caller is done with it.                              *)
(***************************************************************************)
VARIABLES
    state,                \* "uninitialized" until __init__ returns, then "ready"
    class,                \* the class of the instance
    data_to_stadnardize,  \* self.data_to_stadnardize
    _params,              \* self._params
    data,                 \* self.data
    call,                 \* the last call: its method and arguments
    result                \* the outcome of the last call

vars == <<state, class, data_to_stadnardize, _params, data, call, result>>

\* A call record.  composed: a denormalize call whose first argument is the
\* value normalize returned for the arguments inner.
Call(op, args) == [op |-> op, args |-> args, composed |-> FALSE, inner |-> <<>>]
Composed(op, args, inner) ==
    [op |-> op, args |-> args, composed |-> TRUE, inner |-> inner]

\* The caller holds the outcome of a method call.
Pending == call.op \in {"__getitem__", "normalize", "denormalize"}

Init ==
    /\ state = "uninitialized"
    /\ class = "object"
    /\ data_to_stadnardize = EmptyDict
    /\ _params = EmptyDict
    /\ data = EmptyDict
    /\ call = Call("none", <<>>)
    /\ result = Return(PyNone)

\* cls(**kwargs): AbsStandardizer.__init__ with the subclass's
\* init_normalization.
Construct(cls, kwargs) ==
    /\ state = "uninitialized"
    /\ class' = cls
    /\ data_to_stadnardize' = kwargs
    /\ LET fitted == init_normalization(cls, kwargs)
       IN  /\ _params' = fitted._params
           /\ data' = fitted.data
    /\ state' = "ready"
    /\ call' = Call("__init__", <<>>)
    /\ result' = Return(PyNone)

\* self[key]
GetItem(key) ==
    /\ state = "ready"
    /\ ~Pending
    /\ call' = Call("__getitem__", <<PyStr(key)>>)
    /\ result' = getitem(data, key)
    /\ UNCHANGED <<state, class, data_to_stadnardize, _params, data>>

\* Mutant of Normalize: the returned array is also stored in data[key].
NormalizeCaching(args) ==
    /\ state = "ready"
    /\ ~Pending
    /\ call' = Call("normalize", args)
    /\ result' = normalize(class, _params, args)
    /\ data' = IF class # "None" /\ args[2].s \in DOMAIN data
                   THEN [data EXCEPT ![args[2].s] = normalize(class, _params, args).ret.rows]
                   ELSE data
    /\ UNCHANGED <<state, class, data_to_stadnardize, _params>>

\* self.normalize(*args)
Normalize(args) ==
    /\ state = "ready"
    /\ ~Pending
    /\ call' = Call("normalize", args)
    /\ result' = normalize(class, _params, args)
    /\ UNCHANGED <<state, class, data_to_stadnardize, _params, data>>

\* self.denormalize(*args)
Denormalize(args) ==
    /\ state = "ready"
    /\ ~Pending
    /\ call' = Call("denormalize", args)
    /\ result' = denormalize(class, _params, args)
    /\ UNCHANGED <<state, class, data_to_stadnardize, _params, data>>

\* self.denormalize(self.normalize(x, key), key): denormalize applied to the
\* value the last normalize call returned, with its other arguments.
DenormalizeResult ==
    /\ state = "ready"
    /\ call.op = "normalize"
    /\ result.exc = "none"
    /\ LET args == <<result.ret>> \o SubSeq(call.args, 2, Len(call.args))
       IN  /\ call' = Composed("denormalize", args, call.args)
           /\ result' = denormalize(class, _params, args)
    /\ UNCHANGED <<state, class, data_to_stadnardize, _params, data>>

\* The caller is done with the outcome of the last call.
Drop ==
    /\ Pending
    /\ call' = Call("none", <<>>)
    /\ result' = Return(PyNone)
    /\ UNCHANGED <<state, class, data_to_stadnardize, _params, data>>

Next ==
    \/ \E cls \in Classes, kwargs \in InputDicts : Construct(cls, kwargs)
    \/ \E key \in CallKeys : GetItem(key)
    \/ \E args \in CallArgs(class) : Normalize(args)
    \/ \E args \in CallArgs(class) : Denormalize(args)
    \/ DenormalizeResult
    \/ Drop

Spec == Init /\ [][Next]_vars

(***************************************************************************)
(* Vocabulary of the properties.                                           *)
(***************************************************************************)
\* The keys registered at construction.
Registered == DOMAIN data_to_stadnardize

Parameterised == class \in {"MinMax", "Normal", "Robust"}

\* The last call was made as method(data, key) or as self[key].
KeyedCall ==
    /\ Pending
    /\ \/ call.op = "__getitem__"
       \/ /\ Len(call.args) = 2
          /\ call.args[1].type = "ndarray"
          /\ call.args[2].type = "str"
CallKey == IF call.op = "__getitem__" THEN call.args[1].s ELSE call.args[2].s

\* The denominator of the transform of a parameterised class, per column.
Scale(key) ==
    CASE class = "MinMax" -> VecSub(_params[key].max, _params[key].min)
      [] class = "Normal" -> _params[key].std
      [] class = "Robust" -> VecSub(_params[key].q3, _params[key].q1)

NonDegenerate(key) == \A j \in 1..Len(Scale(key)) : Scale(key)[j] # Zero

\* No value outside the exact arithmetic of the model is ever computed.
HasUnrep(A) == \E i \in 1..Len(A) : \E j \in 1..Len(A[i]) : A[i][j].k = "unrep"
Representable ==
    /\ \A key \in DOMAIN data : ~HasUnrep(data[key])
    /\ (result.exc = "none" /\ result.ret.type = "ndarray") => ~HasUnrep(result.ret.rows)

\* The last call is denormalize(normalize(x, key), key) for an array x and a
\* registered key (of non-zero scale, for a parameterised class).
RoundTripCall ==
    /\ call.op = "denormalize"
    /\ call.composed
    /\ Len(call.inner) = 2
    /\ call.inner[1].type = "ndarray"
    /\ call.inner[2].type = "str"
    /\ call.inner[2].s \in Registered
    /\ Parameterised => NonDegenerate(call.inner[2].s)

(***************************************************************************)
(* C1.  For every class (MinMax, Normal, Robust, None) and every           *)
(* registered key, denormalize(normalize(x, key), key) returns x.          *)
(* NoneStandardizer returns the nested tuple ((x, key), key) instead.      *)
(***************************************************************************)
C1_RoundTripEveryClass == RoundTripCall => result = Return(call.inner[1])

\* The part of C1 the code keeps: the parameterised classes return x.
RoundTripParameterised ==
    (RoundTripCall /\ Parameterised) => result = Return(call.inner[1])

(***************************************************************************)
(* C2.  For every class and every registered key, self[key] returns the    *)
(* array normalize(original array, key) returns, so data has an entry for  *)
(* every registered key.  NoneStandardizer leaves data empty: self[key]    *)
(* raises KeyError.                                                        *)
(***************************************************************************)
C2_LookupIsNormalizedOriginal ==
    state = "ready" =>
        \A key \in Registered :
            /\ key \in DOMAIN data
            /\ getitem(data, key) =
                   normalize(class, _params,
                             <<PyArr(data_to_stadnardize[key]), PyStr(key)>>)

\* The part of C2 the code keeps: the parameterised classes.
LookupIsNormalizedOriginalParameterised ==
    (state = "ready" /\ Parameterised) => C2_LookupIsNormalizedOriginal

(***************************************************************************)
(* C3.  A call of self[key], normalize(data, key) or denormalize(data,     *)
(* key) with a key that was not registered raises KeyError for MinMax,     *)
(* Normal and Robust; normalize and denormalize of NoneStandardizer never  *)
(* raise, whatever their arguments.                                        *)
(***************************************************************************)
C3_UnknownKey ==
    /\ (Parameterised /\ KeyedCall /\ CallKey \notin Registered)
           => result.exc = "KeyError"
    /\ (class = "None" /\ call.op \in {"normalize", "denormalize"})
           => result.exc = "none"

C3_Witness ==
    /\ Parameterised
    /\ call.op = "denormalize"
    /\ CallKey = "missing"
    /\ Registered = {"x", "y"}
    /\ result.exc = "KeyError"

(***************************************************************************)
(* C4.  Once the instance is ready, no step changes _params or data.       *)
(***************************************************************************)
C4_CachedStateImmutable ==
    [][state = "ready" => (_params' = _params /\ data' = data)]_vars

C4_Witness ==
    /\ Parameterised
    /\ call.op = "normalize"
    /\ CallKey \in Registered
    /\ result.exc = "none"
    /\ result.ret.rows # data[CallKey]

(***************************************************************************)
(* C5.  normalize and denormalize of NoneStandardizer return the tuple of  *)
(* exactly the arguments of the call, in order, for every number of        *)
(* arguments; its _params is empty.                                        *)
(***************************************************************************)
C5_NonePassThrough ==
    (class = "None" /\ state = "ready") =>
        /\ _params = EmptyDict
        /\ call.op \in {"normalize", "denormalize"} =>
               /\ result.exc = "none"
               /\ result.ret.type = "tuple"
               /\ Len(result.ret.items) = Len(call.args)
               /\ \A i \in 1..Len(call.args) : result.ret.items[i] = call.args[i]

C5_Witness ==
    /\ class = "None"
    /\ call.op = "normalize"
    /\ Len(call.args) = 3
    /\ call.args[1] # call.args[2]
    /\ result.exc = "none"

\* Vectors of whole numbers.
Nums(w) == [j \in 1..Len(w) |-> Num(w[j])]

(***************************************************************************)
(* C6.  MinMax construction stores for every registered key the            *)
(* column-wise minimum and maximum over the rows of that key's own array   *)
(* and the array (x - min) / (max - min); the array [[1,2],[3,4],[5,6]]    *)
(* gives min = [1,2], max = [5,6], normalized first row [0,0] and last row *)
(* [1,1].                                                                  *)
(***************************************************************************)
C6_MinMaxConstruction ==
    (class = "MinMax" /\ state = "ready") =>
        /\ DOMAIN _params = Registered
        /\ DOMAIN data = Registered
        /\ \A key \in Registered :
              LET value == data_to_stadnardize[key]
                  lo == _params[key].min
                  hi == _params[key].max
              IN  /\ Len(lo) = NumCols(value) /\ Len(hi) = NumCols(value)
                  /\ Len(data[key]) = NumRows(value)
                  /\ \A j \in 1..NumCols(value) :
                        /\ \E i \in 1..NumRows(value) : value[i][j] = lo[j]
                        /\ \E i \in 1..NumRows(value) : value[i][j] = hi[j]
                        /\ \A i \in 1..NumRows(value) :
                              /\ LessEq(lo[j], value[i][j])
                              /\ LessEq(value[i][j], hi[j])
                              /\ data[key][i][j] =
                                     Div(Sub(value[i][j], lo[j]), Sub(hi[j], lo[j]))
                  /\ value = ScenarioArray =>
                        /\ lo = Nums(<<1, 2>>)
                        /\ hi = Nums(<<5, 6>>)
                        /\ data[key][1] = Nums(<<0, 0>>)
                        /\ data[key][3] = Nums(<<1, 1>>)

C6_Witness ==
    /\ class = "MinMax"
    /\ state = "ready"
    /\ Registered = {"x", "y"}
    /\ data_to_stadnardize["x"] = SkewedArray
    /\ data_to_stadnardize["y"] = ScenarioArray
    /\ _params["y"].min = Nums(<<1, 2>>)
    /\ _params["x"].max = Nums(<<1, 4>>)

(***************************************************************************)
(* C7.  MinMax: for a registered key whose array has max # min in every    *)
(* column, every element of self[key] lies in [0, 1].                      *)
(***************************************************************************)
C7_MinMaxUnitInterval ==
    (class = "MinMax" /\ call.op = "__getitem__" /\ CallKey \in Registered
         /\ NonDegenerate(CallKey)) =>
        /\ result.exc = "none"
        /\ \A i \in 1..Len(result.ret.rows) : \A j \in 1..Len(result.ret.rows[i]) :
              /\ IsFinite(result.ret.rows[i][j])
              /\ LessEq(Zero, result.ret.rows[i][j])
              /\ LessEq(result.ret.rows[i][j], One)

C7_Witness ==
    /\ class = "MinMax"
    /\ call.op = "__getitem__"
    /\ CallKey \in Registered
    /\ NonDegenerate(CallKey)
    /\ \E i \in 1..Len(result.ret.rows) :
          /\ Less(Zero, result.ret.rows[i][1])
          /\ Less(result.ret.rows[i][1], One)

(***************************************************************************)
(* C8.  A zero denominator (max = min, std = 0, q3 = q1) in a column       *)
(* raises nothing: construction completes and reaches the ready state,     *)
(* normalize returns, and the column holds NaN or +-Inf in every row       *)
(* while the columns of non-zero denominator hold finite values.           *)
(***************************************************************************)
NonFiniteWhereDegenerate(A, key) ==
    \A i \in 1..Len(A) : \A j \in 1..Len(A[i]) :
        IF Scale(key)[j] = Zero
            THEN A[i][j] \in {NaN, PInf, NInf}
            ELSE IsFinite(A[i][j])

C8_ZeroDenominator ==
    /\ (Parameterised /\ call.op = "__init__") =>
          /\ result.exc = "none"
          /\ state = "ready"
          /\ \A key \in Registered :
                /\ key \in DOMAIN data
                /\ NonFiniteWhereDegenerate(data[key], key)
    /\ (Parameterised /\ call.op = "normalize" /\ CallKey \in Registered) =>
          /\ result.exc = "none"
          /\ NonFiniteWhereDegenerate(result.ret.rows, CallKey)

C8_Witness ==
    /\ class = "Robust"
    /\ call.op = "normalize"
    /\ CallKey = "x"
    /\ "x" \in Registered
    /\ data_to_stadnardize["x"] = SkewedArray
    /\ data["x"][1][1] = NaN
    /\ data["x"][5][1] = PInf
    /\ IsFinite(data["x"][5][2])
    /\ result.ret.rows[1][1] = PInf
    /\ IsFinite(result.ret.rows[1][2])

(***************************************************************************)
(* C9.  Robust: for a registered key with q3 # q1 in every column, every   *)
(* column of self[key] has median 0; q1, median and q3 are the 25th, 50th  *)
(* and 75th percentiles with linear interpolation between data points      *)
(* ([1,3,5] has q1 = 2, median = 3, q3 = 4).                               *)
(***************************************************************************)
C9_RobustMedianZero ==
    /\ (class = "Robust" /\ call.op = "__getitem__" /\ CallKey \in Registered
            /\ NonDegenerate(CallKey)) =>
          /\ result.exc = "none"
          /\ \A j \in 1..NumCols(result.ret.rows) :
                Median(Column(result.ret.rows, j)) = Zero
    /\ (class = "Robust" /\ state = "ready") =>
          \A key \in Registered :
              data_to_stadnardize[key] = ScenarioArray =>
                  /\ _params[key].q1 = Nums(<<2, 3>>)
                  /\ _params[key].median = Nums(<<3, 4>>)
                  /\ _params[key].q3 = Nums(<<4, 5>>)

C9_Witness ==
    /\ class = "Robust"
    /\ call.op = "__getitem__"
    /\ CallKey = "x"
    /\ Registered = {"x", "y"}
    /\ NonDegenerate("x")
    /\ NumRows(data_to_stadnardize["x"]) = 3
    /\ _params["x"].median[1] # Mean(Column(data_to_stadnardize["x"], 1))
    /\ result.exc = "none"

(***************************************************************************)
(* C10.  Normal: for a registered key with std # 0 in every column, every  *)
(* column of self[key] has mean 0 and population standard deviation        *)
(* (ddof = 0) 1.                                                           *)
(***************************************************************************)
C10_ZscoreMeanStd ==
    (class = "Normal" /\ call.op = "__getitem__" /\ CallKey \in Registered
         /\ NonDegenerate(CallKey)) =>
        /\ result.exc = "none"
        /\ \A j \in 1..NumCols(result.ret.rows) :
              /\ Mean(Column(result.ret.rows, j)) = Zero
              /\ StdDdof(Column(result.ret.rows, j), 0) = One

\* A key with a column whose std is irrational.
C10_Witness ==
    /\ class = "Normal"
    /\ call.op = "__getitem__"
    /\ CallKey = "x"
    /\ "x" \in Registered
    /\ NonDegenerate("x")
    /\ NumRows(data_to_stadnardize["x"]) = 3
    /\ _params["x"].std[1].b # R0
    /\ result.exc = "none"

====
